---- MODULE Spec2Model ----
(***************************************************************************)
(* Model of the cb_api_client request/response pipeline: the three client  *)
(* variants (BaseClient, APIClient, CleverbridgeClient), the Logger, and   *)
(* the parts of net/http, net/url, encoding/base64 and encoding/json they  *)
(* call.                                                                   *)
(*                                                                         *)
(* A Go string is a sequence of symbols.  A symbol is a one-character      *)
(* string, or an opaque run of ordinary characters (letters, digits,       *)
(* blanks inside a word such as "not found") written as one TLA+ string.   *)
(* The characters the code or its libraries treat specially (the quote,    *)
(* the backslash, & = + % ? : and the JSON brackets) are always symbols of *)
(* their own.                                                              *)
(***************************************************************************)
EXTENDS Integers, Sequences, FiniteSets, TLC

VARIABLES
    client,        \* which constructor built the client: "none" before
    config,        \* the *CleverbridgeConfig the client holds
    logger,        \* the client's *Logger (NoLogger: it has none)
    logFileState,  \* the log file's handle: "none", "open", "closed"
    opened,        \* how os.OpenFile went: "untried", "ok", "failed"
    pc,            \* "idle", "inflight" (a request is out), "done"
    call,          \* the operation last called: [name, ctx, args]
    sent,          \* the requests it has put on the wire
    net,           \* what httpClient.Do and the body read gave it
    tret,          \* what its transport function returned: [resp, err]
    ret,           \* what it returned: [err, isNil, items]
    written,       \* the lines it has written to the log or to stdout
    callers,       \* the goroutines sharing the client: [pc, msgs, n]
    stream,        \* what the write(2) calls put on the log's output
    wlock          \* who holds the output file's write lock (0: nobody)

vars == <<client, config, logger, logFileState, opened, pc, call, sent,
          net, tret, ret, written, callers, stream, wlock>>

\* The state of one caller using the client on its own.
callVars == <<pc, call, sent, net, tret, ret, written>>

\* The state of callers running side by side.
concVars == <<callers, stream, wlock>>

----------------------------------------------------------------------------
(* Sequences of symbols                                                    *)

Range(s) == {s[i] : i \in 1..Len(s)}

\* strings.Contains: sub occurs in s as a contiguous run.
Contains(s, sub) ==
    \E i \in 0..(Len(s) - Len(sub)) :
        \A j \in 1..Len(sub) : s[i + j] = sub[j]

\* Position of the first occurrence of symbol c in s, 0 when absent.
IndexOf(s, c) ==
    IF c \in Range(s) THEN CHOOSE i \in 1..Len(s) :
                               s[i] = c /\ \A j \in 1..(i - 1) : s[j] # c
                      ELSE 0

RECURSIVE Flatten(_)
Flatten(ss) == IF ss = <<>> THEN <<>> ELSE Head(ss) \o Flatten(Tail(ss))

\* fmt's %d of a non-negative int: its decimal digits.
DigitSym == <<"0", "1", "2", "3", "4", "5", "6", "7", "8", "9">>

RECURSIVE Itoa(_)
Itoa(n) == IF n < 10 THEN <<DigitSym[n + 1]>>
                     ELSE Append(Itoa(n \div 10), DigitSym[(n % 10) + 1])

----------------------------------------------------------------------------
(* encoding/base64, StdEncoding                                            *)

B64Alphabet ==
    <<"A", "B", "C", "D", "E", "F", "G", "H", "I", "J", "K", "L", "M",
      "N", "O", "P", "Q", "R", "S", "T", "U", "V", "W", "X", "Y", "Z",
      "a", "b", "c", "d", "e", "f", "g", "h", "i", "j", "k", "l", "m",
      "n", "o", "p", "q", "r", "s", "t", "u", "v", "w", "x", "y", "z",
      "0", "1", "2", "3", "4", "5", "6", "7", "8", "9", "+", "/">>

\* []byte(s) for the characters credentials are drawn from (ASCII codes).
Ord(c) == CASE c = "a" -> 97
            [] c = "b" -> 98
            [] c = ":" -> 58
            [] c = "Z" -> 90

Bytes(s) == [i \in 1..Len(s) |-> Ord(s[i])]

B64Sym(n) == B64Alphabet[n + 1]

RECURSIVE EncodeToString(_)
EncodeToString(b) ==
    IF Len(b) = 0 THEN <<>>
    ELSE IF Len(b) = 1 THEN
        LET n == b[1] * 65536
        IN  <<B64Sym(n \div 262144), B64Sym((n \div 4096) % 64), "=", "=">>
    ELSE IF Len(b) = 2 THEN
        LET n == b[1] * 65536 + b[2] * 256
        IN  <<B64Sym(n \div 262144), B64Sym((n \div 4096) % 64),
              B64Sym((n \div 64) % 64), "=">>
    ELSE
        LET n == b[1] * 65536 + b[2] * 256 + b[3]
        IN  <<B64Sym(n \div 262144), B64Sym((n \div 4096) % 64),
              B64Sym((n \div 64) % 64), B64Sym(n % 64)>>
            \o EncodeToString(SubSeq(b, 4, Len(b)))

\* StdEncoding.DecodeString, as the server does it: four symbols give three
\* bytes, "=" padding gives fewer.  <<-1>> stands for a decoding error.
B64Val(c) == IndexOf(B64Alphabet, c) - 1

RECURSIVE DecodeString(_)
DecodeString(s) ==
    IF Len(s) = 0 THEN <<>>
    ELSE IF Len(s) < 4 \/ B64Val(s[1]) < 0 \/ B64Val(s[2]) < 0 THEN <<-1>>
    ELSE LET v1 == B64Val(s[1])
             v2 == B64Val(s[2])
         IN  IF s[3] = "=" THEN
                 IF s[4] = "=" /\ Len(s) = 4
                 THEN <<(v1 * 4 + v2 \div 16) % 256>>
                 ELSE <<-1>>
             ELSE IF B64Val(s[3]) < 0 THEN <<-1>>
             ELSE LET v3 == B64Val(s[3])
                  IN  IF s[4] = "=" THEN
                          IF Len(s) = 4
                          THEN <<(v1 * 4 + v2 \div 16) % 256,
                                 (v2 * 16 + v3 \div 4) % 256>>
                          ELSE <<-1>>
                      ELSE IF B64Val(s[4]) < 0 THEN <<-1>>
                      ELSE <<(v1 * 4 + v2 \div 16) % 256,
                             (v2 * 16 + v3 \div 4) % 256,
                             (v3 * 64 + B64Val(s[4])) % 256>>
                           \o DecodeString(SubSeq(s, 5, Len(s)))

----------------------------------------------------------------------------
(* net/url: Values.Encode, QueryEscape, Parse, ParseQuery                  *)

\* url.QueryEscape of one symbol: a blank becomes "+", a reserved character
\* its %XX form, anything else is kept.
EscapeSym(c) == CASE c = " " -> <<"+">>
                  [] c = "&" -> <<"%", "2", "6">>
                  [] c = "=" -> <<"%", "3", "D">>
                  [] c = "+" -> <<"%", "2", "B">>
                  [] c = "%" -> <<"%", "2", "5">>
                  [] c = "?" -> <<"%", "3", "F">>
                  [] OTHER   -> <<c>>

\* An encoder that leaves every symbol as it is.
QueryEscape_raw(s) == s

QueryEscape(s) == Flatten([i \in 1..Len(s) |-> EscapeSym(s[i])])


\* The query keys of the three endpoints in the byte order Values.Encode
\* sorts them into.
KeyOrder == <<"customerId", "isCurrent", "purchaseId", "subscriptionId">>

\* url.Values.Encode of a map with one value per key: key=value pairs, keys
\* sorted, values query-escaped, joined by "&".  (The keys are plain words,
\* which QueryEscape keeps.)
RECURSIVE EncodeFrom(_, _, _)
EncodeFrom(params, i, first) ==
    IF i > Len(KeyOrder) THEN <<>>
    ELSE IF KeyOrder[i] \in DOMAIN params THEN
        (IF first THEN <<>> ELSE <<"&">>)
        \o <<KeyOrder[i], "=">> \o QueryEscape(params[KeyOrder[i]])
        \o EncodeFrom(params, i + 1, FALSE)
    ELSE EncodeFrom(params, i + 1, first)

Encode(params) == EncodeFrom(params, 1, TRUE)

\* The base URLs a configuration may hold: the service's, and one url.Parse
\* rejects ("missing protocol scheme": the text starts with a colon).
GoodBaseURL == "https://rest.cleverbridge.com"
BadBaseURL == "://bad"

\* url.Parse of base + path [+ "?" + query]: fails on a malformed base;
\* otherwise Path is the symbols before the first "?", RawQuery those after.
ParseURL(u) ==
    LET q == IndexOf(u, "?")
    IN  IF u[1] = BadBaseURL
        THEN [ok |-> FALSE, Host |-> "", Path |-> <<>>, RawQuery |-> <<>>]
        ELSE [ok       |-> TRUE,
              Host     |-> u[1],
              Path     |-> IF q = 0 THEN Tail(u) ELSE SubSeq(u, 2, q - 1),
              RawQuery |-> IF q = 0 THEN <<>> ELSE SubSeq(u, q + 1, Len(u))]

\* url.QueryUnescape, the inverse the server applies: "+" is a blank and
\* %XX the character with that code.
RECURSIVE QueryUnescape(_)
QueryUnescape(s) ==
    IF s = <<>> THEN <<>>
    ELSE IF Head(s) = "+" THEN <<" ">> \o QueryUnescape(Tail(s))
    ELSE IF Head(s) = "%" /\ Len(s) >= 3 THEN
        LET hex == <<s[2], s[3]>>
            c   == CASE hex = <<"2", "6">> -> "&"
                     [] hex = <<"3", "D">> -> "="
                     [] hex = <<"2", "B">> -> "+"
                     [] hex = <<"2", "5">> -> "%"
                     [] hex = <<"3", "F">> -> "?"
                     [] OTHER -> "\\x"
        IN  <<c>> \o QueryUnescape(SubSeq(s, 4, Len(s)))
    ELSE <<Head(s)>> \o QueryUnescape(Tail(s))

\* strings.Split(s, sep) for a one-symbol separator.
RECURSIVE Split(_, _)
Split(s, sep) ==
    LET i == IndexOf(s, sep)
    IN  IF i = 0 THEN <<s>>
        ELSE <<SubSeq(s, 1, i - 1)>> \o Split(SubSeq(s, i + 1, Len(s)), sep)

\* url.ParseQuery, as the server reads a raw query: the sequence of
\* <<key, value>> pairs, one per non-empty "&"-separated part, cut at the
\* first "=" and unescaped.
ParseQuery(raw) ==
    LET parts == SelectSeq(Split(raw, "&"), LAMBDA p : p # <<>>)
        Pair(p) == LET e == IndexOf(p, "=")
                   IN  IF e = 0 THEN <<QueryUnescape(p), <<>>>>
                       ELSE <<QueryUnescape(SubSeq(p, 1, e - 1)),
                              QueryUnescape(SubSeq(p, e + 1, Len(p)))>>
    IN  [i \in 1..Len(parts) |-> Pair(parts[i])]

----------------------------------------------------------------------------
(* net/http: Header, Request                                               *)

HeaderKeys == {"Authorization", "Content-Type", "Accept"}

\* A new request's header: no values under any key.
EmptyHeader == [k \in HeaderKeys |-> <<>>]

\* http.Header.Set: the values under key are replaced by the single value.
HeaderSet(h, key, value) == [h EXCEPT ![key] = <<value>>]

\* http.NewRequestWithContext(ctx, method, fullURL, nil): fails when the URL
\* does not parse; the new request has an empty header.
NewRequestWithContext(ctx, method, fullURL) ==
    LET u == ParseURL(fullURL)
    IN  [ok     |-> u.ok,
         Method |-> method,
         URL    |-> u,
         Header |-> EmptyHeader,
         ctx    |-> ctx]

----------------------------------------------------------------------------
(* Go errors: the text Error() gives, and the sentinel causes errors.Is    *)
(* finds by unwrapping.                                                    *)

NilErr == [nil |-> TRUE, text |-> <<>>, causes |-> {}]

NewErr(text, causes) == [nil |-> FALSE, text |-> text, causes |-> causes]

\* fmt.Errorf(prefix + "%w", e): the text is extended, the chain is kept.
Errorf_dropsCause(prefix, e) == NewErr(<<prefix>> \o e.text, {})

Errorf_w(prefix, e) == NewErr(<<prefix>> \o e.text, e.causes)

----------------------------------------------------------------------------
(* encoding/json: the scanner and the decoder, on the JSON subset the      *)
(* response bodies are drawn from (no blanks between tokens; a number, and *)
(* the literal null, is one symbol).                                       *)

JNumbers == {"5"}

JFail == [ok |-> FALSE, v |-> [t |-> "null", v |-> <<>>], next |-> 0]

JOk(t, v, next) == [ok |-> TRUE, v |-> [t |-> t, v |-> v], next |-> next]

Sym(s, i) == IF i <= Len(s) THEN s[i] ELSE "\\eof"

\* The characters of a string literal from position i (after the opening
\* quote) up to the closing quote; \" and \\ are the escapes.
RECURSIVE ScanString(_, _, _)
ScanString(s, i, acc) ==
    IF i > Len(s) THEN JFail
    ELSE IF s[i] = "\"" THEN JOk("str", acc, i + 1)
    ELSE IF s[i] = "\\" THEN
        IF Sym(s, i + 1) \in {"\"", "\\"}
        THEN ScanString(s, i + 2, Append(acc, s[i + 1]))
        ELSE JFail
    ELSE ScanString(s, i + 1, Append(acc, s[i]))

RECURSIVE ScanValue(_, _), ScanElements(_, _, _), ScanMembers(_, _, _)

\* One JSON value starting at position i: [ok, v, next].
ScanValue(s, i) ==
    LET c == Sym(s, i)
    IN  IF c = "null" THEN JOk("null", <<>>, i + 1)
        ELSE IF c \in JNumbers THEN JOk("num", <<c>>, i + 1)
        ELSE IF c = "\"" THEN ScanString(s, i + 1, <<>>)
        ELSE IF c = "[" THEN
            IF Sym(s, i + 1) = "]" THEN JOk("arr", <<>>, i + 2)
            ELSE ScanElements(s, i + 1, <<>>)
        ELSE IF c = "{" THEN
            IF Sym(s, i + 1) = "}" THEN JOk("obj", <<>>, i + 2)
            ELSE ScanMembers(s, i + 1, <<>>)
        ELSE JFail

ScanElements(s, i, acc) ==
    LET e == ScanValue(s, i)
    IN  IF ~e.ok THEN JFail
        ELSE IF Sym(s, e.next) = "," THEN ScanElements(s, e.next + 1, Append(acc, e.v))
        ELSE IF Sym(s, e.next) = "]" THEN JOk("arr", Append(acc, e.v), e.next + 1)
        ELSE JFail

ScanMembers(s, i, acc) ==
    IF Sym(s, i) # "\"" THEN JFail
    ELSE LET k == ScanString(s, i + 1, <<>>)
         IN  IF ~k.ok \/ Sym(s, k.next) # ":" THEN JFail
             ELSE LET e == ScanValue(s, k.next + 1)
                      m == [k |-> k.v.v, v |-> e.v]
                  IN  IF ~e.ok THEN JFail
                      ELSE IF Sym(s, e.next) = ","
                          THEN ScanMembers(s, e.next + 1, Append(acc, m))
                      ELSE IF Sym(s, e.next) = "}"
                          THEN JOk("obj", Append(acc, m), e.next + 1)
                      ELSE JFail

\* json.Unmarshal's checkValid: the whole input is exactly one value.
ParseDocument(s) ==
    LET r == ScanValue(s, 1)
    IN  IF r.ok /\ r.next = Len(s) + 1 THEN r ELSE JFail

\* json.Decoder.Decode: the first value of the stream; what follows it is
\* left unread.
ParseFirst(s) == ScanValue(s, 1)

\* The decoder filling a struct whose fields are all strings (fields: the
\* json tags).  A member whose key is a tag sets the field when its value is
\* a string, leaves it alone when it is null, and records a type error (and
\* goes on) otherwise; other members are skipped.
RECURSIVE DecodeMembers(_, _, _)
DecodeMembers(ms, i, acc) ==
    IF i > Len(ms) THEN acc
    ELSE LET m == ms[i]
             tagged == Len(m.k) = 1 /\ m.k[1] \in DOMAIN acc.val
         IN  IF ~tagged \/ m.v.t = "null" THEN DecodeMembers(ms, i + 1, acc)
             ELSE IF m.v.t = "str" THEN
                 DecodeMembers(ms, i + 1,
                               [acc EXCEPT !.val[m.k[1]] = m.v.v])
             ELSE DecodeMembers(ms, i + 1, [acc EXCEPT !.typeErr = TRUE])

\* A JSON value into a struct: null is a no-op, an object fills the fields,
\* anything else is a type error.  The struct starts zero-valued.
DecodeStruct(v, fields) ==
    LET zero == [typeErr |-> FALSE, val |-> [f \in fields |-> <<>>]]
    IN  IF v.t = "null" THEN zero
        ELSE IF v.t = "obj" THEN DecodeMembers(v.v, 1, zero)
        ELSE [zero EXCEPT !.typeErr = TRUE]

\* The fields of Subscription the clients read back (ID, Status, Plan);
\* the other string fields decode the same way.
SubscriptionFields == {"id", "status", "plan"}

SyntaxErr == NewErr(<<"invalid character or unexpected end of JSON input">>,
                    {"json.SyntaxError"})
TypeErr == NewErr(<<"json: cannot unmarshal value into Go value">>,
                  {"json.UnmarshalTypeError"})

\* What a decode into `var subscription Subscription` leaves: [err, val].
StructResult(p, fields) ==
    IF ~p.ok THEN [err |-> SyntaxErr, val |-> [f \in fields |-> <<>>]]
    ELSE LET d == DecodeStruct(p.v, fields)
         IN  [err |-> IF d.typeErr THEN TypeErr ELSE NilErr, val |-> d.val]

\* json.Unmarshal(body, &subscription)
UnmarshalSubscription(body) ==
    StructResult(ParseDocument(body), SubscriptionFields)

\* json.NewDecoder(resp.Body).Decode(&result)
DecodeSubscription(body) == StructResult(ParseFirst(body), SubscriptionFields)

\* json.Unmarshal(body, &subscriptions) for `var subscriptions
\* []Subscription`: null leaves the nil slice, an array gives one element per
\* value (an empty array the empty, non-nil slice), anything else is a type
\* error.  [err, isNil, items]
SliceResult(p) ==
    IF ~p.ok THEN [err |-> SyntaxErr, isNil |-> TRUE, items |-> <<>>]
    ELSE IF p.v.t = "null"
        THEN [err |-> NilErr, isNil |-> TRUE, items |-> <<>>]
    ELSE IF p.v.t = "arr" THEN
        LET ds == [i \in 1..Len(p.v.v) |->
                       DecodeStruct(p.v.v[i], SubscriptionFields)]
        IN  [err   |-> IF \E i \in 1..Len(ds) : ds[i].typeErr
                       THEN TypeErr ELSE NilErr,
             isNil |-> FALSE,
             items |-> [i \in 1..Len(ds) |-> ds[i].val]]
    ELSE [err |-> TypeErr, isNil |-> TRUE, items |-> <<>>]

UnmarshalSubscriptions_rejectsEmpty(body) ==
    LET p == ParseDocument(body)
    IN  IF p.ok /\ p.v.t = "arr" /\ p.v.v = <<>>
        THEN [err |-> TypeErr, isNil |-> TRUE, items |-> <<>>]
        ELSE SliceResult(p)

UnmarshalSubscriptions(body) == SliceResult(ParseDocument(body))

\* json.Unmarshal(bodyBytes, &cleverbridgeError), the anonymous struct
\* {Error `json:"error"`; Message `json:"message"`}.
CleverbridgeErrorFields == {"error", "message"}

UnmarshalCleverbridgeError(body) ==
    StructResult(ParseDocument(body), CleverbridgeErrorFields)

----------------------------------------------------------------------------
(* The server's side: what a response may carry                            *)

\* encoding of a string as a JSON string literal
JEscapeSym(c) == IF c \in {"\"", "\\"} THEN <<"\\", c>> ELSE <<c>>

JStr(s) == <<"\"">> \o Flatten([i \in 1..Len(s) |-> JEscapeSym(s[i])]) \o <<"\"">>

\* an object from a sequence of <<key symbol, encoded value>> pairs
RECURSIVE JMembers(_)
JMembers(ms) ==
    IF ms = <<>> THEN <<>>
    ELSE <<"\"", Head(ms)[1], "\"", ":">> \o Head(ms)[2]
         \o (IF Len(ms) > 1 THEN <<",">> ELSE <<>>) \o JMembers(Tail(ms))

JObj(ms) == <<"{">> \o JMembers(ms) \o <<"}">>

\* The `error` and `message` texts an error body may carry; one error text
\* holds a quote, which JSON writes escaped.
ErrorTexts == {<<"invalid_id">>, <<"a", "\"", "b">>, <<>>}
MessageTexts == {<<"not found">>, <<>>}

StructuredErrorBody(e, m) == JObj(<< <<"error", JStr(e)>>, <<"message", JStr(m)>> >>)

BodyEmptyArray == <<"[", "]">>
BodyNull == <<"null">>
BodyEmptyObject == <<"{", "}">>
BodySubscription ==
    JObj(<< <<"id", JStr(<<"S1">>)>>, <<"status", JStr(<<"active">>)>>,
            <<"plan", JStr(<<"pro">>)>> >>)
BodySubscriptionArray == <<"[">> \o BodySubscription \o <<"]">>
BodyWrongType == JObj(<< <<"id", <<"5">> >> >>)
BodyMessageOnly == JObj(<< <<"message", JStr(<<"not found">>)>> >>)
BodyText == <<"internal error">>
BodyNone == <<>>
BodyTrailing == BodyEmptyObject \o <<"x">>

Bodies ==
    {BodyEmptyArray, BodyNull, BodyEmptyObject, BodySubscription,
     BodySubscriptionArray, BodyWrongType, BodyMessageOnly, BodyText,
     BodyNone, BodyTrailing}
    \cup {StructuredErrorBody(e, m) : e \in ErrorTexts, m \in MessageTexts}

\* The status from which a response is an error (`resp.StatusCode >= 400`).
StatusErrorMin == 400

StatusCodes == {200, StatusErrorMin - 1, StatusErrorMin, 500}

\* The reason phrase of the status line.
StatusText(code) == CASE code = 200 -> "OK"
                      [] code = 400 -> "Bad Request"
                      [] code = 500 -> "Internal Server Error"
                      [] OTHER      -> ""

\* resp.Status as net/http sets it: the three digits of the code, a blank
\* and the reason phrase.
StatusLine(code) == Itoa(code) \o <<" ", StatusText(code)>>

----------------------------------------------------------------------------
(* net/http: Client.Do, and reading the response body                      *)

\* The outcome of httpClient.Do(req) followed by reading resp.Body:
\*   err      Do's error (nil when a response arrived),
\*   StatusCode, Status, Body   the response,
\*   readErr  the error of reading the body (nil when it was read in full).
DoResult(err, code, body, readErr) ==
    [err |-> err, StatusCode |-> code,
     Status |-> IF code = 0 THEN <<>> ELSE StatusLine(code),
     Body |-> body, readErr |-> readErr]

NoDo == DoResult(NilErr, 0, <<>>, NilErr)

\* Do with a context that is already done: the transport checks ctx.Done()
\* before it dials, so nothing is written to the network, and Do returns a
\* *url.Error around ctx.Err().
DoCanceled ==
    DoResult(NewErr(<<"Get: ", "context canceled">>, {"context.Canceled"}),
             0, <<>>, NilErr)

\* Do after the request went out: the connection fails, or the client's
\* 30 s Timeout (or the caller's deadline) passes.
DoFailures ==
    {DoResult(NewErr(<<"Get: ", "connection refused">>, {"net.OpError"}),
              0, <<>>, NilErr),
     DoResult(NewErr(<<"Get: ", "context deadline exceeded">>,
                     {"context.DeadlineExceeded"}), 0, <<>>, NilErr)}

ReadErr == NewErr(<<"unexpected EOF">>, {"io.ErrUnexpectedEOF"})

\* A response arrives; its body is read in full, or the read breaks off.
DoResponses ==
    {DoResult(NilErr, c, b, NilErr) : c \in StatusCodes, b \in Bodies}
    \cup {DoResult(NilErr, c, <<>>, ReadErr) : c \in StatusCodes}

\* Whether Do puts the request on the wire: it was built, and its context
\* is not done yet.
Transmits(req) == req.ok /\ req.ctx = "live"

UrlErr == NewErr(<<"parse: missing protocol scheme">>, {"url.Error"})

----------------------------------------------------------------------------
(* Logger (part_002)                                                       *)

NoLogger == [present |-> FALSE, debug |-> FALSE, logFile |-> "nil",
             writer |-> "none"]

\* NewLogger(debug, logFile); openOK is whether os.OpenFile succeeds.
NewLogger_fileOnFailure(debug, logFile, openOK) ==
    IF logFile # ""
    THEN [present |-> TRUE, debug |-> debug, logFile |-> "file",
          writer |-> "file"]
    ELSE [present |-> TRUE, debug |-> debug, logFile |-> "nil",
          writer |-> "stdout"]

NewLogger(debug, logFile, openOK) ==
    IF logFile # "" /\ openOK
    THEN [present |-> TRUE, debug |-> debug, logFile |-> "file",
          writer |-> "file"]
    ELSE [present |-> TRUE, debug |-> debug, logFile |-> "nil",
          writer |-> "stdout"]

\* One fmt.Fprintln / Fprintf call on l.writer.  (The structured fields a
\* line ends with are left out of its text.)
Line(l, text) == [to |-> l.writer, text |-> text]

\* Logger.Info
Logger_Info_ungated(l, message) == <<Line(l, <<"INFO: ", message>>)>>

Logger_Info(l, message) ==
    IF l.debug THEN <<Line(l, <<"INFO: ", message>>)>> ELSE <<>>

\* Logger.Warn
Logger_Warn(l, message) == <<Line(l, <<"WARN: ", message>>)>>

\* Logger.Error
Logger_Error(l, message, err) ==
    <<Line(l, <<"ERROR: ", message>>
              \o (IF err.nil THEN <<>> ELSE <<" - ">> \o err.text))>>

MarshalErr == NewErr(<<"json: unsupported type">>,
                     {"json.UnsupportedTypeError"})

\* Logger.Json; marshalOK is whether json.MarshalIndent(data) succeeds.
Logger_Json(l, marshalOK) ==
    IF l.debug
    THEN IF ~marshalOK
         THEN Logger_Error(l, "JSON marshaling failed", MarshalErr)
         ELSE <<Line(l, <<"JSON LOG:\n", "data", "\n">>)>>
    ELSE <<>>

\* Logger.Debug is called by CleverbridgeDoRequest and defined nowhere in the
\* sources: a line written in debug mode only.
Logger_Debug(l, message) ==
    IF l.debug THEN <<Line(l, <<"DEBUG: ", message>>)>> ELSE <<>>

ErrClosed == NewErr(<<"close: file already closed">>, {"os.ErrClosed"})

\* Logger.Close: l.logFile.Close() when a file is held.  fileState is the
\* state of the *os.File, which Close leaves in the logger's field: closing
\* a closed file is os.ErrClosed.  [err, fileState]
Logger_Close(l, fileState) ==
    IF l.logFile # "nil"
    THEN IF fileState = "open"
         THEN [err |-> NilErr, fileState |-> "closed"]
         ELSE [err |-> ErrClosed, fileState |-> fileState]
    ELSE [err |-> NilErr, fileState |-> fileState]

\* APIClient.Close
APIClient_Close(l, fileState) ==
    IF l.present THEN Logger_Close(l, fileState)
    ELSE [err |-> NilErr, fileState |-> fileState]

----------------------------------------------------------------------------
(* What the functions return                                               *)

\* The transport function's first result: nil, or what it carries of the
\* response (StatusCode 0: no status is carried, as in a bare []byte).
NilResp == [nil |-> TRUE, StatusCode |-> 0, Body |-> <<>>]

Resp(code, body) == [nil |-> FALSE, StatusCode |-> code, Body |-> body]

\* A domain operation's results: the error, and the pointer or slice (isNil;
\* items holds the one record of a *Subscription, or the slice's elements).
Failed(err) == [err |-> err, isNil |-> TRUE, items |-> <<>>]

Returned(isNil, items) == [err |-> NilErr, isNil |-> isNil, items |-> items]

NoRet == Failed(NilErr)

\* for key, value := range m { h.Set(key, value) }
RECURSIVE SetAll(_, _)
SetAll(h, m) ==
    IF DOMAIN m = {} THEN h
    ELSE LET k == CHOOSE x \in DOMAIN m : TRUE
         IN  SetAll(HeaderSet(h, k, m[k]),
                    [x \in DOMAIN m \ {k} |-> m[x]])

\* The full URL the clients build: base + path, and "?" + the encoded
\* parameters when there are any.
FullURL(baseURL, path, queryParams) ==
    <<baseURL, path>>
    \o (IF DOMAIN queryParams # {} THEN <<"?">> \o Encode(queryParams)
                                   ELSE <<>>)

\* What a transport function leaves: the request it handed to Do (ok FALSE:
\* it built none), its two results, the lines written before Do and all the
\* lines written.
Out(req, r, err, before, after) ==
    [req |-> req, resp |-> r, err |-> err, before |-> before,
     written |-> before \o after]

\* What a domain operation leaves, and what it returns (ret).
Outcome(t, before, lines, r) ==
    [req |-> t.req, tret |-> [resp |-> t.resp, err |-> t.err],
     before |-> before, written |-> lines, ret |-> r]

\* The decoded struct as the record a *Subscription points to.
AsItems(s) == [err |-> s.err, isNil |-> FALSE, items |-> <<s.val>>]

\* `var subscription Subscription` or `var subscriptions []Subscription`,
\* filled by json.Unmarshal(body, &...).
Unmarshal(body, single) ==
    IF single THEN AsItems(UnmarshalSubscription(body))
              ELSE UnmarshalSubscriptions(body)

----------------------------------------------------------------------------
(* BaseClient (part_000, second file)                                      *)

\* BaseClient.getBasicAuth
BaseClient_getBasicAuth_idOnly(cfg) == EncodeToString(Bytes(cfg.ClientID))

BaseClient_getBasicAuth(cfg) ==
    EncodeToString(Bytes(cfg.ClientID \o <<":">> \o cfg.ClientSecret))

\* req.Header after the loop over request.Headers.
WithHeaders(req, headers) == [req EXCEPT !.Header = SetAll(@, headers)]

\* BaseClient.SendRequest up to httpClient.Do: the request handed to Do
\* (ok FALSE: NewRequestWithContext failed and Do is not called).
BaseClient_NewRequest(cfg, ctx, request) ==
    WithHeaders(NewRequestWithContext(
                    ctx, request.Method,
                    FullURL(cfg.BaseURL, request.Path, request.QueryParams)),
                request.Headers)

\* The debug line SendRequest prints before Do.
BaseDebugLine(cfg) ==
    IF cfg.Debug
    THEN <<[to |-> "stdout", text |-> <<"Sending request to: ">>]>>
    ELSE <<>>

\* BaseClient.SendRequest from httpClient.Do on; do is what Do and
\* io.ReadAll give.
BaseClient_Do(req, dbg, do) ==
    IF ~req.ok
    THEN Out(req, NilResp, Errorf_w("failed to create request: ", UrlErr),
             <<>>, <<>>)
    ELSE IF ~do.err.nil
    THEN Out(req, NilResp, Errorf_w("request failed: ", do.err), dbg, <<>>)
    ELSE IF ~do.readErr.nil
    THEN Out(req, NilResp, Errorf_w("failed to read response: ", do.readErr),
             dbg, <<>>)
    ELSE IF do.StatusCode >= StatusErrorMin
    THEN Out(req, Resp(do.StatusCode, do.Body),
             NewErr(<<"API error: status ">> \o Itoa(do.StatusCode)
                    \o <<", body: ">> \o do.Body, {}),
             dbg, <<>>)
    ELSE Out(req, Resp(do.StatusCode, do.Body), NilErr, dbg, <<>>)

\* BaseClient.SendRequest
BaseClient_SendRequest(cfg, ctx, request, do) ==
    BaseClient_Do(BaseClient_NewRequest(cfg, ctx, request),
                  BaseDebugLine(cfg), do)

\* The Headers literal of the three operations.
BaseHeaders(cfg) ==
    [k \in HeaderKeys |->
        IF k = "Authorization"
        THEN <<"Basic ">> \o BaseClient_getBasicAuth(cfg)
        ELSE <<"application/json">>]

\* The tail the three BaseClient operations share: wrap the transport's
\* error, or decode the body (u).
BaseReturn(t, what, parseWhat, u) ==
    Outcome(t, t.before, t.written,
            IF ~t.err.nil THEN Failed(Errorf_w(what, t.err))
            ELSE IF ~u.err.nil THEN Failed(Errorf_w(parseWhat, u.err))
            ELSE Returned(u.isNil, u.items))

BaseResult(t, what, parseWhat, single) ==
    BaseReturn(t, what, parseWhat, Unmarshal(t.resp.Body, single))

\* BaseClient.GetSubscription
BaseClient_GetSubscription(cfg, ctx, subscriptionID, isCurrent, do) ==
    BaseResult(
        BaseClient_SendRequest(
            cfg, ctx,
            [Method |-> "GET",
             Path |-> "/subscription/getsubscription",
             QueryParams |-> [subscriptionId |-> subscriptionID,
                              isCurrent |-> isCurrent],
             Headers |-> BaseHeaders(cfg)],
            do),
        "failed to get subscription: ", "failed to parse subscription: ",
        TRUE)

\* BaseClient.GetSubscriptionsByPurchase
BaseClient_GetSubscriptionsByPurchase(cfg, ctx, purchaseID, do) ==
    BaseResult(
        BaseClient_SendRequest(
            cfg, ctx,
            [Method |-> "GET",
             Path |-> "/subscription/getsubscriptionsbypurchase",
             QueryParams |-> [purchaseId |-> purchaseID],
             Headers |-> BaseHeaders(cfg)],
            do),
        "failed to get subscriptions by purchase: ",
        "failed to parse subscriptions: ", FALSE)

\* BaseClient.GetSubscriptionsForCustomer
BaseClient_GetSubscriptionsForCustomer(cfg, ctx, customerID, do) ==
    BaseResult(
        BaseClient_SendRequest(
            cfg, ctx,
            [Method |-> "GET",
             Path |-> "/subscription/getsubscriptionsforcustomer",
             QueryParams |-> [customerId |-> customerID],
             Headers |-> BaseHeaders(cfg)],
            do),
        "failed to get subscriptions for customer: ",
        "failed to parse subscriptions: ", FALSE)

----------------------------------------------------------------------------
(* APIClient (part_001)                                                    *)

\* APIClient.getBasicAuth
APIClient_getBasicAuth(cfg) ==
    EncodeToString(Bytes(cfg.ClientID \o <<":">> \o cfg.ClientSecret))

\* The three req.Header.Set calls of sendRequest.
APIClient_SetHeaders(h, cfg) ==
    HeaderSet(
        HeaderSet(
            HeaderSet(h, "Authorization",
                      <<"Basic ">> \o APIClient_getBasicAuth(cfg)),
            "Content-Type", <<"application/json">>),
        "Accept", <<"application/json">>)

\* APIClient.sendRequest up to httpClient.Do: the request handed to Do.
APIClient_NewRequest(cfg, ctx, method, path, queryParams) ==
    [NewRequestWithContext(ctx, method,
                           FullURL(cfg.BaseURL, path, queryParams))
        EXCEPT !.Header = APIClient_SetHeaders(@, cfg)]

\* The lines sendRequest writes once the body is read.
APIClient_Received(cfg, l, do) ==
    Logger_Info(l, "API response received")
    \o (IF cfg.Debug /\ Len(do.Body) > 0 THEN Logger_Json(l, TRUE) ELSE <<>>)

\* APIClient.sendRequest from httpClient.Do on; b is the line written
\* before the request is built.
APIClient_Do(cfg, l, req, b, do) ==
    IF ~req.ok
    THEN Out(req, NilResp, Errorf_w("failed to create request: ", UrlErr), b,
             Logger_Error(l, "Failed to create HTTP request", UrlErr))
    ELSE IF ~do.err.nil
    THEN Out(req, NilResp, Errorf_w("request failed: ", do.err), b,
             Logger_Error(l, "HTTP request failed", do.err))
    ELSE IF ~do.readErr.nil
    THEN Out(req, NilResp, Errorf_w("failed to read response: ", do.readErr),
             b, Logger_Error(l, "Failed to read response body", do.readErr))
    ELSE IF do.StatusCode >= StatusErrorMin
    THEN Out(req, NilResp,
             NewErr(<<"API error: status ">> \o Itoa(do.StatusCode)
                    \o <<", body: ">> \o do.Body, {}),
             b,
             APIClient_Received(cfg, l, do)
             \o Logger_Error(l, "API returned error response", NilErr))
    ELSE Out(req, Resp(0, do.Body), NilErr, b, APIClient_Received(cfg, l, do))

\* APIClient.sendRequest with a nil body; do is what httpClient.Do and
\* io.ReadAll give.
APIClient_sendRequest(cfg, l, ctx, method, path, queryParams, do) ==
    APIClient_Do(cfg, l,
                 APIClient_NewRequest(cfg, ctx, method, path, queryParams),
                 Logger_Info(l, "Sending API request"), do)

\* The tail the three APIClient operations share: log and wrap the
\* transport's error, or decode the body (u) and log the outcome.  i is the
\* line written on entry; m names the messages.
APIReturn(l, t, i, m, u) ==
    Outcome(t, i \o t.before,
            i \o t.written
            \o (IF ~t.err.nil THEN Logger_Error(l, m.failed, t.err)
                ELSE IF ~u.err.nil THEN Logger_Error(l, m.parseFailed, u.err)
                ELSE Logger_Info(l, m.ok)),
            IF ~t.err.nil THEN Failed(Errorf_w(m.what, t.err))
            ELSE IF ~u.err.nil THEN Failed(Errorf_w(m.parseWhat, u.err))
            ELSE Returned(u.isNil, u.items))

APIResult(l, t, m, single) ==
    APIReturn(l, t, Logger_Info(l, m.intro), m,
              Unmarshal(t.resp.Body, single))

\* APIClient.GetSubscription
APIClient_GetSubscription(cfg, l, ctx, subscriptionID, isCurrent, do) ==
    APIResult(
        l,
        APIClient_sendRequest(
            cfg, l, ctx, "GET", "/subscription/getsubscription",
            [subscriptionId |-> subscriptionID, isCurrent |-> isCurrent], do),
        [intro       |-> "Getting subscription",
         failed      |-> "Failed to get subscription",
         what        |-> "failed to get subscription: ",
         parseFailed |-> "Failed to parse subscription response",
         parseWhat   |-> "failed to parse subscription: ",
         ok          |-> "Successfully retrieved subscription"],
        TRUE)

\* APIClient.GetSubscriptionsByPurchase
APIClient_GetSubscriptionsByPurchase(cfg, l, ctx, purchaseID, do) ==
    APIResult(
        l,
        APIClient_sendRequest(
            cfg, l, ctx, "GET", "/subscription/getsubscriptionsbypurchase",
            [purchaseId |-> purchaseID], do),
        [intro       |-> "Getting subscriptions by purchase",
         failed      |-> "Failed to get subscriptions by purchase",
         what        |-> "failed to get subscriptions by purchase: ",
         parseFailed |-> "Failed to parse subscriptions response",
         parseWhat   |-> "failed to parse subscriptions: ",
         ok          |-> "Successfully retrieved subscriptions by purchase"],
        FALSE)

\* APIClient.GetSubscriptionsForCustomer
APIClient_GetSubscriptionsForCustomer(cfg, l, ctx, customerID, do) ==
    APIResult(
        l,
        APIClient_sendRequest(
            cfg, l, ctx, "GET", "/subscription/getsubscriptionsforcustomer",
            [customerId |-> customerID], do),
        [intro       |-> "Getting subscriptions for customer",
         failed      |-> "Failed to get subscriptions for customer",
         what        |-> "failed to get subscriptions for customer: ",
         parseFailed |-> "Failed to parse subscriptions response",
         parseWhat   |-> "failed to parse subscriptions: ",
         ok          |-> "Successfully retrieved subscriptions for customer"],
        FALSE)

----------------------------------------------------------------------------
(* CleverbridgeClient (part_000, first file)                               *)

\* (*http.Request).SetBasicAuth: Authorization is set to "Basic " and the
\* base64 of username:password.
SetBasicAuth(h, username, password) ==
    HeaderSet(h, "Authorization",
              <<"Basic ">>
              \o EncodeToString(Bytes(username \o <<":">> \o password)))

\* req.SetBasicAuth and the two req.Header.Set calls of
\* CleverbridgeDoRequest.
Cleverbridge_SetHeaders(h, cfg) ==
    HeaderSet(
        HeaderSet(SetBasicAuth(h, cfg.ClientID, cfg.ClientSecret),
                  "Content-Type", <<"application/json">>),
        "Accept", <<"application/json">>)

\* CleverbridgeDoRequest up to httpClient.Do: the request handed to Do.
Cleverbridge_NewRequest(cfg, ctx, method, path, queryParams) ==
    [NewRequestWithContext(ctx, method,
                           FullURL(cfg.BaseURL, path, queryParams))
        EXCEPT !.Header = Cleverbridge_SetHeaders(@, cfg)]

\* The error of a response with status >= 400 whose body was read, e being
\* the body decoded into the error struct: the structured report when the
\* decoding succeeded and the Error field is not empty, the raw body
\* otherwise.  [err, line]
CleverbridgeStatusError_rawOmitsBody(l, do, e) ==
    IF e.err.nil /\ e.val["error"] # <<>>
    THEN [err  |-> NewErr(<<"Cleverbridge API error: ">> \o e.val["error"]
                          \o <<" - ">> \o e.val["message"], {}),
          line |-> Logger_Error(l, "Cleverbridge API error", NilErr)]
    ELSE [err  |-> NewErr(<<"request failed with status: ">> \o do.Status, {}),
          line |-> Logger_Error(
                       l, "Failed to decode Cleverbridge error response",
                       NilErr)]

CleverbridgeStatusError(l, do, e) ==
    IF e.err.nil /\ e.val["error"] # <<>>
    THEN [err  |-> NewErr(<<"Cleverbridge API error: ">> \o e.val["error"]
                          \o <<" - ">> \o e.val["message"], {}),
          line |-> Logger_Error(l, "Cleverbridge API error", NilErr)]
    ELSE [err  |-> NewErr(<<"request failed with status: ">> \o do.Status
                          \o <<", response: ">> \o do.Body, {}),
          line |-> Logger_Error(
                       l, "Failed to decode Cleverbridge error response",
                       NilErr)]

\* The return of the `if resp.StatusCode >= 400` block once the body is
\* read; se is the error chosen above.
Cleverbridge_StatusReturn(req, b, se) == Out(req, NilResp, se.err, b, se.line)

\* CleverbridgeDoRequest from httpClient.Do on; b is the line written
\* before Do.
Cleverbridge_Do(l, req, b, do) ==
    IF ~req.ok
    THEN Out(req, NilResp, Errorf_w("failed to create request: ", UrlErr),
             <<>>, Logger_Error(l, "Failed to create HTTP request", UrlErr))
    ELSE IF ~do.err.nil
    THEN Out(req, NilResp, Errorf_w("request failed: ", do.err), b,
             Logger_Error(l, "HTTP request failed", do.err))
    ELSE IF do.StatusCode >= StatusErrorMin
    THEN IF ~do.readErr.nil
         THEN Out(req, NilResp,
                  NewErr(<<"request failed with status: ">> \o do.Status, {}),
                  b,
                  Logger_Error(l, "Failed to read error response body",
                               do.readErr))
         ELSE Cleverbridge_StatusReturn(
                  req, b,
                  CleverbridgeStatusError(
                      l, do, UnmarshalCleverbridgeError(do.Body)))
    ELSE Out(req, Resp(do.StatusCode, do.Body), NilErr, b, <<>>)

\* CleverbridgeClient.CleverbridgeDoRequest with a nil body.
CleverbridgeDoRequest(cfg, l, ctx, method, path, queryParams, do) ==
    Cleverbridge_Do(l,
                    Cleverbridge_NewRequest(cfg, ctx, method, path,
                                            queryParams),
                    Logger_Debug(l, "Making Cleverbridge API request"), do)

\* The tail of CleverbridgeClient.GetSubscription: the transport's error as
\* it is, or the decoded body (d).
Cleverbridge_Return(l, t, d) ==
    Outcome(t, t.before,
            t.written
            \o (IF t.err.nil /\ ~d.err.nil
                THEN Logger_Error(
                         l,
                         "Failed to decode Cleverbridge subscription response",
                         d.err)
                ELSE <<>>),
            IF ~t.err.nil THEN Failed(t.err)
            ELSE IF ~d.err.nil
            THEN Failed(Errorf_w("failed to decode response: ", d.err))
            ELSE Returned(FALSE, <<d.val>>))

\* json.NewDecoder(resp.Body).Decode(&result): the body is decoded from the
\* stream, so a read that breaks off is the decoder's error.
Cleverbridge_Decode(t, do) ==
    IF ~do.readErr.nil THEN [err |-> do.readErr, val |-> <<>>]
    ELSE DecodeSubscription(t.resp.Body)

Cleverbridge_Result(l, t, do) ==
    Cleverbridge_Return(l, t, Cleverbridge_Decode(t, do))

\* CleverbridgeClient.GetSubscription
CleverbridgeClient_GetSubscription(cfg, l, ctx, subscriptionID, isCurrent, do) ==
    Cleverbridge_Result(
        l,
        CleverbridgeDoRequest(
            cfg, l, ctx, "GET", "/subscription/getsubscription",
            [subscriptionId |-> subscriptionID, isCurrent |-> isCurrent], do),
        do)

----------------------------------------------------------------------------
(* Inputs                                                                  *)

\* The longest identifier a caller passes, in symbols.
MaxArgLen == 1

SeqsUpTo(S, n) == UNION {[1..k -> S] : k \in 0..n}

\* Identifiers are made of a word, a blank and an ampersand: the last two
\* are what the query encoding has to escape.
ArgSyms == {"S1", " ", "&"}
Args == SeqsUpTo(ArgSyms, MaxArgLen)

IsCurrentValues == {<<"true">>, <<"false">>}

Contexts == {"live", "canceled"}

\* Credentials whose id:secret is 3, 4 and 5 bytes long (the three padding
\* cases of base64); one id holds a colon itself.
Credentials ==
    {[id |-> <<"a">>, secret |-> <<"b">>],
     [id |-> <<"a", "b">>, secret |-> <<"Z">>],
     [id |-> <<"a", ":">>, secret |-> <<"b", "Z">>]}

\* config.LogFile, which NewCleverbridgeClient hands to NewLogger: no log
\* file, or a path.
LogFiles == {"", "app.log"}

Configs ==
    {[ClientID |-> c.id, ClientSecret |-> c.secret, BaseURL |-> u,
      Debug |-> d, LogFile |-> f] :
        c \in Credentials, u \in {GoodBaseURL, BadBaseURL}, d \in BOOLEAN,
        f \in LogFiles}

NoConfig == [ClientID |-> <<>>, ClientSecret |-> <<>>, BaseURL |-> "",
             Debug |-> FALSE, LogFile |-> ""]

NoCall == [name |-> "none", ctx |-> "none", args |-> <<>>]

NoTret == [resp |-> NilResp, err |-> NilErr]

\* The goroutines that call the shared client side by side.
Callers == {1, 2}

\* How many write(2) calls the system accepts only in part.
MaxShortWrites == 1

\* A caller that has not called yet.
Ready == [pc |-> "ready", msgs |-> <<>>, n |-> 0]

----------------------------------------------------------------------------
(* The state machine                                                       *)

Init ==
    /\ client = "none"
    /\ config = NoConfig
    /\ logger = NoLogger
    /\ logFileState = "none"
    /\ opened = "untried"
    /\ pc = "idle"
    /\ call = NoCall
    /\ sent = <<>>
    /\ net = NoDo
    /\ tret = NoTret
    /\ ret = NoRet
    /\ written = <<>>
    /\ callers = [p \in Callers |-> Ready]
    /\ stream = <<>>
    /\ wlock = 0

\* NewBaseClient: no logger; config.LogFile is not read, so it is left
\* empty.
NewBaseClient(cfg) ==
    /\ client = "none"
    /\ cfg.LogFile = ""
    /\ client' = "Base"
    /\ config' = cfg
    /\ UNCHANGED concVars
    /\ UNCHANGED <<logger, logFileState, opened, pc, call, sent, net, tret,
                   ret, written>>

\* NewAPIClient: NewLogger(config.Debug, ""), so always the console.
NewAPIClient(cfg) ==
    /\ client = "none"
    /\ cfg.LogFile = ""
    /\ client' = "API"
    /\ config' = cfg
    /\ logger' = NewLogger(cfg.Debug, "", TRUE)
    /\ UNCHANGED concVars
    /\ UNCHANGED <<logFileState, opened, pc, call, sent, net, tret, ret,
                   written>>

\* NewCleverbridgeClient: NewLogger(config.Debug, config.LogFile); openOK is
\* whether the file can be opened.  A failed open is reported with
\* log.Printf and construction goes on.
NewCleverbridgeClient(cfg, openOK) ==
    /\ client = "none"
    /\ cfg.LogFile = "" => openOK
    /\ client' = "CB"
    /\ config' = cfg
    /\ logger' = NewLogger(cfg.Debug, cfg.LogFile, openOK)
    /\ opened' = IF cfg.LogFile = "" THEN "untried"
                 ELSE IF openOK THEN "ok" ELSE "failed"
    /\ logFileState' = IF cfg.LogFile # "" /\ openOK THEN "open" ELSE "none"
    /\ UNCHANGED concVars
    /\ UNCHANGED <<pc, call, sent, net, tret, ret, written>>

\* The operation c on the client at hand, given what the network does.
HandleCall(c, do) ==
    CASE client = "Base" /\ c.name = "GetSubscription" ->
             BaseClient_GetSubscription(config, c.ctx, c.args[1], c.args[2],
                                        do)
      [] client = "Base" /\ c.name = "GetSubscriptionsByPurchase" ->
             BaseClient_GetSubscriptionsByPurchase(config, c.ctx, c.args[1],
                                                   do)
      [] client = "Base" /\ c.name = "GetSubscriptionsForCustomer" ->
             BaseClient_GetSubscriptionsForCustomer(config, c.ctx, c.args[1],
                                                    do)
      [] client = "API" /\ c.name = "GetSubscription" ->
             APIClient_GetSubscription(config, logger, c.ctx, c.args[1],
                                       c.args[2], do)
      [] client = "API" /\ c.name = "GetSubscriptionsByPurchase" ->
             APIClient_GetSubscriptionsByPurchase(config, logger, c.ctx,
                                                  c.args[1], do)
      [] client = "API" /\ c.name = "GetSubscriptionsForCustomer" ->
             APIClient_GetSubscriptionsForCustomer(config, logger, c.ctx,
                                                   c.args[1], do)
      [] client = "CB" /\ c.name = "GetSubscription" ->
             CleverbridgeClient_GetSubscription(config, logger, c.ctx,
                                                c.args[1], c.args[2], do)

\* The request as it goes out.
Wire(req) == [Method |-> req.Method, Host |-> req.URL.Host,
              Path |-> req.URL.Path, RawQuery |-> req.URL.RawQuery,
              Header |-> req.Header]

\* A call runs up to httpClient.Do.  When the request could not be built, or
\* Do refuses it because the context is done, it returns at once; otherwise
\* the request is out and the call waits for the network.
Begin(c, h) ==
    /\ pc = "idle"
    /\ call' = c
    /\ IF Transmits(h.req)
       THEN /\ pc' = "inflight"
            /\ sent' = <<Wire(h.req)>>
            /\ net' = NoDo
            /\ tret' = NoTret
            /\ ret' = NoRet
            /\ written' = h.before
       ELSE /\ pc' = "done"
            /\ sent' = <<>>
            /\ net' = IF h.req.ok THEN DoCanceled ELSE NoDo
            /\ tret' = h.tret
            /\ ret' = h.ret
            /\ written' = h.written
    /\ UNCHANGED concVars
    /\ UNCHANGED <<client, config, logger, logFileState, opened>>

Start(c) == Begin(c, HandleCall(c, DoCanceled))

GetSubscription(ctx, subscriptionID, isCurrent) ==
    /\ client \in {"Base", "API", "CB"}
    /\ Start([name |-> "GetSubscription", ctx |-> ctx,
              args |-> <<subscriptionID, isCurrent>>])

GetSubscriptionsByPurchase(ctx, purchaseID) ==
    /\ client \in {"Base", "API"}
    /\ Start([name |-> "GetSubscriptionsByPurchase", ctx |-> ctx,
              args |-> <<purchaseID>>])

GetSubscriptionsForCustomer(ctx, customerID) ==
    /\ client \in {"Base", "API"}
    /\ Start([name |-> "GetSubscriptionsForCustomer", ctx |-> ctx,
              args |-> <<customerID>>])

\* httpClient.Do returns (and the body is read); the call runs to its end.
Finish(do, h) ==
    /\ net' = do
    /\ tret' = h.tret
    /\ ret' = h.ret
    /\ written' = h.written
    /\ pc' = "done"
    /\ UNCHANGED concVars
    /\ UNCHANGED <<client, config, logger, logFileState, opened, call, sent>>

RoundTrip(do) ==
    /\ pc = "inflight"
    /\ Finish(do, HandleCall(call, do))

\* A method of the Logger called on its own.
LoggerCall(name, lines, err, fileState) ==
    /\ pc = "idle"
    /\ call' = [name |-> name, ctx |-> "none", args |-> <<>>]
    /\ written' = lines
    /\ ret' = Failed(err)
    /\ logFileState' = fileState
    /\ pc' = "done"
    /\ sent' = <<>>
    /\ net' = NoDo
    /\ tret' = NoTret
    /\ UNCHANGED concVars
    /\ UNCHANGED <<client, config, logger, opened>>

Info ==
    /\ logger.present
    /\ LoggerCall("Info", Logger_Info(logger, "message"), NilErr,
                  logFileState)

Warn ==
    /\ logger.present
    /\ LoggerCall("Warn", Logger_Warn(logger, "message"), NilErr,
                  logFileState)

Error(err) ==
    /\ logger.present
    /\ LoggerCall("Error", Logger_Error(logger, "message", err), NilErr,
                  logFileState)

Json(marshalOK) ==
    /\ logger.present
    /\ LoggerCall("Json", Logger_Json(logger, marshalOK), NilErr,
                  logFileState)

\* APIClient.Close on an APIClient, Logger.Close on the logger otherwise.
Closed(r) == LoggerCall("Close", <<>>, r.err, r.fileState)

Close ==
    /\ logger.present
    /\ Closed(IF client = "API" THEN APIClient_Close(logger, logFileState)
                                ELSE Logger_Close(logger, logFileState))

\* The caller has taken the results; the client is ready for the next call.
Return ==
    /\ pc = "done"
    /\ pc' = "idle"
    /\ call' = NoCall
    /\ sent' = <<>>
    /\ net' = NoDo
    /\ tret' = NoTret
    /\ ret' = NoRet
    /\ written' = <<>>
    /\ UNCHANGED concVars
    /\ UNCHANGED <<client, config, logger, logFileState, opened>>

Next ==
    \/ \E cfg \in Configs : NewBaseClient(cfg)
    \/ \E cfg \in Configs : NewAPIClient(cfg)
    \/ \E cfg \in Configs, openOK \in BOOLEAN :
           NewCleverbridgeClient(cfg, openOK)
    \/ \E ctx \in Contexts, id \in Args, cur \in IsCurrentValues :
           GetSubscription(ctx, id, cur)
    \/ \E ctx \in Contexts, id \in Args : GetSubscriptionsByPurchase(ctx, id)
    \/ \E ctx \in Contexts, id \in Args : GetSubscriptionsForCustomer(ctx, id)
    \/ \E do \in DoFailures \cup DoResponses : RoundTrip(do)
    \/ Info
    \/ Warn
    \/ \E err \in {NilErr, ReadErr} : Error(err)
    \/ \E ok \in BOOLEAN : Json(ok)
    \/ Close
    \/ Return

Spec == Init /\ [][Next]_vars

----------------------------------------------------------------------------
(* Callers side by side on one client                                      *)

\* The configurations the shared client is built from.
ConcConfigs ==
    {cfg \in Configs : cfg.BaseURL = GoodBaseURL /\ cfg.ClientID = <<"a">>}

\* The calls the callers make, each with what the network does to it.
ConcRuns ==
    {[c  |-> [name |-> "GetSubscription", ctx |-> "live",
              args |-> <<<<"S1">>, <<"true">>>>],
      do |-> DoResult(NilErr, StatusErrorMin, BodyText, NilErr)],
     [c  |-> [name |-> "GetSubscription", ctx |-> "canceled",
              args |-> <<<<"S1">>, <<"true">>>>],
      do |-> DoCanceled],
     [c  |-> [name |-> "GetSubscriptionsByPurchase", ctx |-> "live",
              args |-> <<<<"S1">>>>],
      do |-> DoResult(NilErr, 200, BodyEmptyArray, NilErr)]}

\* A caller inside an operation that is to write lines, in this order.
Entered(lines) ==
    [pc |-> IF lines = <<>> THEN "returned" ELSE "running", msgs |-> lines,
     n |-> 0]

\* Caller p calls an operation of the shared client.  What the call writes
\* is fixed by the call and by what the network does; when it writes is not.
Go(p, run) ==
    /\ client \in {"API", "CB"}
    /\ client = "CB" => run.c.name = "GetSubscription"
    /\ callers[p].pc = "ready"
    /\ callers' = [callers EXCEPT
                       ![p] = Entered(HandleCall(run.c, run.do).written)]
    /\ UNCHANGED <<stream, wlock>>
    /\ UNCHANGED <<client, config, logger, logFileState, opened>>
    /\ UNCHANGED callVars

\* The line caller p is writing.
Current(p) == callers[p].msgs[callers[p].n + 1]

\* The caller after its current line is out.
Advanced(c) ==
    [c EXCEPT !.n = c.n + 1,
              !.pc = IF c.n + 1 = Len(c.msgs) THEN "returned" ELSE "running"]

\* One write(2): symbols first..last of caller p's current line.
Chunk(p, first, last) ==
    [from |-> p, msg |-> callers[p].n + 1, to |-> Current(p).to,
     text |-> SubSeq(Current(p).text, first, last),
     short |-> last < Len(Current(p).text)]

ShortWrites == Cardinality({i \in 1..Len(stream) : stream[i].short})

\* A caller that ignores the lock.
FD_writeLock_absent(holder) == TRUE

\* os.File.Write begins with fd.writeLock(): it goes on when no other Write
\* holds the lock.
FD_writeLock(holder) == holder = 0

\* fmt.Fprintln(l.writer, msg) / fmt.Fprintf(l.writer, ...): the line is
\* formatted in a buffer and handed to l.writer.Write once.  Write takes the
\* lock and calls write(2), which accepts the whole line (full) or only its
\* first symbol; in the first case Write unlocks and returns, in the second
\* it keeps the lock and loops.
FD_Write(p, full) ==
    /\ callers[p].pc = "running"
    /\ FD_writeLock(wlock)
    /\ IF full
       THEN /\ stream' = Append(stream, Chunk(p, 1, Len(Current(p).text)))
            /\ callers' = [callers EXCEPT ![p] = Advanced(callers[p])]
            /\ wlock' = wlock
       ELSE /\ Len(Current(p).text) > 1
            /\ ShortWrites < MaxShortWrites
            /\ stream' = Append(stream, Chunk(p, 1, 1))
            /\ callers' = [callers EXCEPT ![p].pc = "writing"]
            /\ wlock' = p
    /\ UNCHANGED <<client, config, logger, logFileState, opened>>
    /\ UNCHANGED callVars

\* Write's loop: the next write(2) takes the rest of the line; Write unlocks
\* and returns.
FD_WriteRest(p) ==
    /\ callers[p].pc = "writing"
    /\ stream' = Append(stream, Chunk(p, 2, Len(Current(p).text)))
    /\ callers' = [callers EXCEPT ![p] = Advanced(callers[p])]
    /\ wlock' = 0
    /\ UNCHANGED <<client, config, logger, logFileState, opened>>
    /\ UNCHANGED callVars

NextConcurrent ==
    \/ \E cfg \in ConcConfigs : NewAPIClient(cfg)
    \/ \E cfg \in ConcConfigs, openOK \in BOOLEAN :
           NewCleverbridgeClient(cfg, openOK)
    \/ \E p \in Callers, run \in ConcRuns : Go(p, run)
    \/ \E p \in Callers, full \in BOOLEAN : FD_Write(p, full)
    \/ \E p \in Callers : FD_WriteRest(p)

SpecConcurrent == Init /\ [][NextConcurrent]_vars

----------------------------------------------------------------------------
(* The claims                                                              *)

DomainOps == {"GetSubscription", "GetSubscriptionsByPurchase",
              "GetSubscriptionsForCustomer"}

ListOps == {"GetSubscriptionsByPurchase", "GetSubscriptionsForCustomer"}

\* The endpoints as section 6 of the specification gives them.
OpPath(name) ==
    CASE name = "GetSubscription" -> "/subscription/getsubscription"
      [] name = "GetSubscriptionsByPurchase" ->
             "/subscription/getsubscriptionsbypurchase"
      [] name = "GetSubscriptionsForCustomer" ->
             "/subscription/getsubscriptionsforcustomer"

\* The query an operation is to send: key -> the argument it carries.
OpQuery(c) ==
    CASE c.name = "GetSubscription" ->
             [subscriptionId |-> c.args[1], isCurrent |-> c.args[2]]
      [] c.name = "GetSubscriptionsByPurchase" -> [purchaseId |-> c.args[1]]
      [] c.name = "GetSubscriptionsForCustomer" -> [customerId |-> c.args[1]]

\* A response arrived and its body was read in full.
ResponseRead == pc = "done" /\ sent # <<>> /\ net.err.nil /\ net.readErr.nil

\* C1: every request a client puts on the wire, for any operation, carries
\* exactly one Authorization header, whose value is "Basic " followed by a
\* text that base64-decodes to clientID ":" clientSecret, exactly one
\* Content-Type: application/json and exactly one Accept: application/json.
C1_AuthAndJSONHeaders ==
    \A i \in 1..Len(sent) :
        /\ Len(sent[i].Header["Authorization"]) = 1
        /\ Head(sent[i].Header["Authorization"][1]) = "Basic "
        /\ DecodeString(Tail(sent[i].Header["Authorization"][1]))
               = Bytes(config.ClientID \o <<":">> \o config.ClientSecret)
        /\ sent[i].Header["Content-Type"] = << <<"application/json">> >>
        /\ sent[i].Header["Accept"] = << <<"application/json">> >>

\* C1's case: a request is out whose credentials need base64 padding.
C1_Witness ==
    /\ pc = "inflight"
    /\ Len(sent) = 1
    /\ Len(config.ClientID \o <<":">> \o config.ClientSecret) = 4

\* What the server reads from a request's query: each key of q exactly
\* once, with q's value, and nothing else.
QueryCarries(raw, q) ==
    /\ Len(ParseQuery(raw)) = Cardinality(DOMAIN q)
    /\ \A k \in DOMAIN q :
           \E i \in 1..Len(ParseQuery(raw)) :
               ParseQuery(raw)[i] = << <<k>>, q[k] >>

C4_DescriptorAndError ==
    (ResponseRead /\ call.name \in DomainOps
         /\ net.StatusCode >= StatusErrorMin)
        => /\ ~tret.err.nil
           /\ ~tret.resp.nil
           /\ tret.resp.StatusCode = net.StatusCode
           /\ tret.resp.Body = net.Body

\* The bodies that are structured errors: JSON objects whose error field
\* is a non-empty text.
StructuredBodies ==
    {StructuredErrorBody(e, m) : e \in ErrorTexts \ {<<>>},
                                 m \in MessageTexts}

\* C5: when the body of a response with status 400 or more is the object
\* {"error": E, "message": M} with E non-empty, the text of the error the
\* domain operation returns contains both E and M.
C5_StructuredErrorText ==
    \A e \in ErrorTexts \ {<<>>}, m \in MessageTexts :
        (ResponseRead /\ call.name \in DomainOps
             /\ net.StatusCode >= StatusErrorMin
             /\ net.Body = StructuredErrorBody(e, m))
            => /\ ~ret.err.nil
               /\ Contains(ret.err.text, e)
               /\ Contains(ret.err.text, m)

\* C6: when the body of a response with status 400 or more was read and is
\* not a structured error (it is not JSON, or its error field is absent or
\* empty), the text of the returned error contains the raw body and the
\* status code; and the structured report "Cleverbridge API error" is the
\* returned error only when the body is a structured error.
C6_RawBodyFallback ==
    (ResponseRead /\ call.name \in DomainOps
         /\ net.StatusCode >= StatusErrorMin)
        => /\ ~ret.err.nil
           /\ net.Body \notin StructuredBodies
                  => /\ Contains(ret.err.text, net.Body)
                     /\ Contains(ret.err.text, Itoa(net.StatusCode))
           /\ Contains(ret.err.text, <<"Cleverbridge API error: ">>)
                  => net.Body \in StructuredBodies

\* C6's case: the variant that parses error bodies got one whose error
\* field is empty.
C6_Witness ==
    /\ ResponseRead
    /\ client = "CB"
    /\ net.StatusCode >= StatusErrorMin
    /\ net.Body = StructuredErrorBody(<<>>, <<"not found">>)
    /\ ~ret.err.nil

\* C7: GetSubscriptionsByPurchase and GetSubscriptionsForCustomer, answered
\* with a success status and the body [], return an empty sequence and no
\* error.
C7_EmptyArray ==
    (ResponseRead /\ call.name \in ListOps
         /\ net.StatusCode < StatusErrorMin /\ net.Body = BodyEmptyArray)
        => /\ ret.err.nil
           /\ ret.items = <<>>

\* C7's case: a list operation has returned from a 200 response with body
\* [].
C7_Witness ==
    /\ ResponseRead
    /\ call.name = "GetSubscriptionsForCustomer"
    /\ net.StatusCode = 200
    /\ net.Body = BodyEmptyArray
    /\ ret.err.nil

\* C8: close() releases the logger's file, if any, and is idempotent: every
\* call of it, a repeated one included, returns without an error.
C8_CloseIdempotent ==
    (pc = "done" /\ call.name = "Close") => ret.err.nil

\* The levels a written line may carry.
InfoLevels == {"INFO: ", "JSON LOG:\n"}

C10_Backing ==
    /\ client \in {"API", "CB"}
           => logger.present /\ logger.writer \in {"stdout", "file"}
    /\ (logger.present /\ logger.writer = "file")
           => config.LogFile # "" /\ opened = "ok"
    /\ (logger.present /\ (config.LogFile = "" \/ opened = "failed"))
           => logger.writer = "stdout"
    /\ opened = "failed" => client = "CB" /\ logger.present
    /\ logger.present
           => \A i \in 1..Len(written) : written[i].to = logger.writer
    /\ (opened = "failed" /\ ResponseRead /\ call.name = "GetSubscription"
            /\ net.StatusCode < StatusErrorMin /\ net.Body = BodySubscription)
           => ret.err.nil

\* C10: the logger is console-backed or file-backed as construction decides
\* and stays so ever after; it is file-backed only if a log file was
\* configured and opened; a failed open falls back to the console, never
\* fails construction and fails no later call.
C10_BackingFixed ==
    /\ []C10_Backing
    /\ [][logger.present => (logger' = logger /\ opened' = opened)]_vars

\* C10's case: the log file could not be opened, and a later call of
\* GetSubscription has succeeded.
C10_Witness ==
    /\ opened = "failed"
    /\ pc = "done"
    /\ call.name = "GetSubscription"
    /\ ret.err.nil

\* The bodies that are a well-formed JSON object matching the Subscription
\* schema.
MatchingBodies == {BodySubscription}

\* The call of GetSubscription at hand got a response that entitles it to
\* a result: the transport succeeded, the status is below 400 and the body
\* is an object matching the schema.
EntitledToResult ==
    /\ ResponseRead
    /\ net.StatusCode < StatusErrorMin
    /\ net.Body \in MatchingBodies

\* C11: a finished call of GetSubscription returns a Subscription exactly
\* when the transport succeeded, the status is below 400 and the body is a
\* well-formed JSON object matching the Subscription schema; in every other
\* case (null, {}, non-JSON, status >= 400, transport failure) it returns an
\* error and no record, never a default-valued one.
C11_NoDefaultRecord ==
    (pc = "done" /\ call.name = "GetSubscription")
        => IF EntitledToResult
           THEN ret.err.nil /\ ~ret.isNil
           ELSE ~ret.err.nil /\ ret.isNil /\ ret.items = <<>>

\* The log message a chunk of the stream belongs to.
Unit(i) == <<stream[i].from, stream[i].msg>>

\* The chunks of line m of caller p, in stream order.
ChunksOf(p, m) == SelectSeq(stream, LAMBDA ch : ch.from = p /\ ch.msg = m)

\* Their texts.
Texts(chunks) == [i \in 1..Len(chunks) |-> chunks[i].text]

\* Every log message is on the stream as one contiguous unit: once a chunk
\* of another message follows a chunk, no later chunk belongs to the first
\* message; every line a caller has finished is there in full; and a
\* caller's lines are in the order it wrote them.
C12_Contiguous ==
    /\ \A i \in 1..Len(stream) - 1 :
           Unit(i + 1) # Unit(i)
               => \A k \in (i + 2)..Len(stream) : Unit(k) # Unit(i)
    /\ \A p \in Callers : \A m \in 1..callers[p].n :
           Flatten(Texts(ChunksOf(p, m))) = callers[p].msgs[m].text
    /\ \A i \in 1..Len(stream) - 1 : \A k \in (i + 1)..Len(stream) :
           stream[i].from = stream[k].from => stream[i].msg <= stream[k].msg

\* C12: when several callers run domain operations side by side on one
\* shared client, every log message reaches the output stream as one
\* contiguous unit, never interleaved with part of another call's message,
\* and a step of one caller changes nothing but that caller's own state and
\* the stream (with its lock): client, configuration and logger stay as
\* construction left them.
C12_SerializedWrites ==
    /\ []C12_Contiguous
    /\ [][client # "none"
              => /\ UNCHANGED <<client, config, logger, logFileState, opened>>
                 /\ \A p, q \in Callers :
                        (p # q /\ callers'[p] # callers[p])
                            => callers'[q] = callers[q]]_vars

\* C12's case: a caller's line was accepted only in part, the other caller
\* has a line to write, and both get their lines out.
C12_Witness ==
    /\ \E i \in 1..Len(stream) : stream[i].short
    /\ \A p \in Callers : callers[p].pc = "returned" /\ callers[p].n >= 1
    /\ \E i, j \in 1..Len(stream) :
           i < j /\ stream[i].from > stream[j].from

====
